---- MODULE Spec2Model ----
(***************************************************************************)
(* Model of the ingestion pipeline of ingest.py: collection resolution,    *)
(* per-file upload, processing wait with timeout, attachment, and the      *)
(* batch loop of main with its accounting and exit status.                 *)
(*                                                                         *)
(* The remote backend is the environment.  Every HTTP answer is a record   *)
(* [code, body]; code 0 stands for "no answer" (requests raises a          *)
(* transport exception that is not an HTTPError).                          *)
(***************************************************************************)
EXTENDS Integers, Sequences, FiniteSets, TLC

\* ------------------------------------------------------------------ bounds
\* Number of catalog entries of the largest run.
MaxFiles == 3
\* Largest poll number at which a scripted backend gives its early answer.
MaxPollK == 3
\* Longest time (s) one status request takes beyond zero.
MaxNetDelay == 1

\* ------------------------------------------------------- program constants
POLL_INTERVAL == 2
POLL_TIMEOUT == 120

\* ------------------------------------------------------------------ state
VARIABLES
    pc,            \* position of the program
    ret,           \* where the running function returns to
    inTry,         \* the program is inside the try block of main's loop
    raised,        \* exception in flight: "none", "HTTPError", "Exception"
    retval,        \* value returned by get_or_create_knowledge, 0 = none
    returns,       \* log of the values get_or_create_knowledge returned
    exitCode,      \* process exit status, -1 while running
    folder_ok,     \* args.folder is a directory
    api_key,       \* a credential is configured
    dry_run,       \* args.dry_run
    nfiles,        \* number of files under the folder with a selected suffix
    files,         \* len(files): catalog of main, 0 before collect_files
    name,          \* collection_name
    kb_id,         \* result of get_or_create_knowledge, 0 = not resolved
    i,             \* loop index of main (1-based), 0 before the loop
    succeeded, failed,
    file_id,       \* file id of the current entry, 0 = none
    ok,            \* result of wait_for_processing for the current entry
    hist,          \* per entry: what the backend saw and how it was counted
    collections,   \* backend: sequence of [id, name]
    listing0,      \* backend: the collections held when the program started
    kbCodes,       \* codes of the answers to the list and create requests
    listShape,     \* backend: "raw" or "items" (shape of the list answer)
    listCalls, createCalls, \* counters of calls issued
    createdId,     \* id reported by the last create answer, 0 = none
    stored,        \* backend: number of files stored (ids 1..stored)
    uploadCalls,   \* log of upload calls: sequence of entry indices
    attachCalls,   \* log of attach calls: sequence of [kb, file]
    script,        \* backend: how the status endpoint answers for the file
    now,           \* clock reading (s) seen by wait_for_processing
    started,       \* clock reading at entry of wait_for_processing
    deadline,
    polls, sleeps, \* counters of status requests and of sleeps
    slept,         \* time slept since the last status request
    gapOk,         \* every poll but the first came after a full sleep
    wstate,        \* state of the waiter
    result,        \* return value of wait_for_processing: "none","true","false"
    peerPc,        \* position of a second, concurrent resolver
    peerRet,       \* value the second resolver returned, 0 = none
    peerCodes,     \* codes of the answers to the second resolver's requests
    order,         \* how the two resolutions were ordered in time
    qOut,          \* what rag_query returned
    completions,   \* log of completion calls: sequence of collection ids
    fs,            \* the directory tree under the folder: a set of paths
    walk,          \* the order in which rglob yields the paths
    exts,          \* the extension set given to collect_files
    catalog        \* the list collect_files returned

vars == <<pc, ret, inTry, raised, retval, returns, exitCode, folder_ok, api_key,
          dry_run, nfiles, files, name, kb_id, i, succeeded, failed, file_id,
          ok, hist, collections, listing0, kbCodes, listShape, listCalls,
          createCalls, createdId, stored, uploadCalls, attachCalls, script, now,
          started, deadline, polls, sleeps, slept, gapOk, wstate, result,
          peerPc, peerRet, peerCodes, order, qOut, completions, fs, walk, exts,
          catalog>>

mainVars == <<exitCode, folder_ok, api_key, dry_run, nfiles, files, name, kb_id,
              i, succeeded, failed, file_id, ok, hist, stored, uploadCalls,
              attachCalls>>
\* State of the second resolver, of rag_query and of collect_files.
auxVars == <<peerPc, peerRet, peerCodes, order, qOut, completions, fs, walk,
             exts, catalog>>
kbVars == <<collections, listing0, kbCodes, listShape, listCalls, createCalls,
            createdId, retval, returns, auxVars>>
waitVars == <<now, started, deadline, polls, sleeps, slept, gapOk, wstate,
              result>>

\* ------------------------------------------------------------ HTTP answers
NoBody == [k \in {} |-> ""]
Resp(code, body) == [code |-> code, body |-> body]

\* Mutant of RaisesForStatus: the status of an answer is never looked at.
RaisesNever(r) == FALSE

\* requests' Response.raise_for_status: HTTPError for 4xx and 5xx.
RaisesForStatus(r) == r.code >= 400 /\ r.code < 600

\* Mutant of Get: the field is looked up under a name the body never has.
GetWrongKey(body, key, default) == default

\* dict.get(key, default)
Get(body, key, default) == IF key \in DOMAIN body THEN body[key] ELSE default

\* ------------------------------------------------- status endpoint scripts
\* A script answers the idle status on polls 1..at-1 and the final answer
\* from poll `at` on; final "never" keeps the idle status for ever.
Finals == {"completed", "failed", "404", "500", "down", "never"}
Idles == {"pending", "absent"}

\* Polls possible before the deadline when no request takes any time.
LastPoll == POLL_TIMEOUT \div POLL_INTERVAL

\* lat is the set of times (s) one status request may take.
Steady == {{0}, {MaxNetDelay}}
Jitter == {0..MaxNetDelay}

ShortScripts(lats) ==
    [final : Finals \ {"never"}, at : 1..MaxPollK, idle : Idles, lat : lats]
LateScripts(lats) ==
    [final : {"completed"}, at : {LastPoll, LastPoll + 1}, idle : {"pending"},
     lat : lats]
NeverScripts(lats) ==
    [final : {"never"}, at : {0}, idle : {"pending"}, lat : lats]

\* Scripts of the fake backend the waiter is run against on its own.
Scripts ==
    ShortScripts(Steady \cup Jitter) \cup LateScripts(Steady \cup Jitter)
    \cup NeverScripts(Steady \cup Jitter)

\* Scripts the backend follows for the files of a batch.
BatchScripts == ShortScripts(Steady) \cup NeverScripts(Steady)

NoScript == [final |-> "never", at |-> 0, idle |-> "pending", lat |-> {0}]

IdleAnswer(s) ==
    IF s.idle = "absent" THEN Resp(200, NoBody)
    ELSE Resp(200, [status |-> s.idle])

Answer(s, n) ==
    IF s.final = "never" \/ n < s.at THEN IdleAnswer(s)
    ELSE CASE s.final = "completed" -> Resp(200, [status |-> "completed"])
           [] s.final = "failed" -> Resp(200, [status |-> "failed"])
           [] s.final = "404" -> Resp(404, NoBody)
           [] s.final = "500" -> Resp(500, NoBody)
           [] OTHER -> Resp(0, NoBody)

\* Mutant of Handler: the loop body has no try block.
HandlerNoTry(try) == "crash"

\* Mutant of Handler: the try block is around the whole of main's body, so an
\* exception of collection resolution is caught like that of a file.
HandlerAlwaysExcept(try) == "except"

\* Where a raised exception lands: the except clauses of main's loop, or
\* nowhere (the exception leaves the program).
Handler(try) == IF try THEN "except" ELSE "crash"

\* ----------------------------------------------------- wait_for_processing
\* Clock readings at which the waiter may be entered.
StartTimes == {0, 7}

\* Mutant of Deadline: the clock reading is left out.
DeadlineAbsolute(t) == POLL_TIMEOUT

Deadline(t) == t + POLL_TIMEOUT

\* deadline = time.time() + POLL_TIMEOUT
WaitEnter ==
    /\ pc = "wait_enter"
    /\ \E t \in StartTimes :
          /\ now' = t
          /\ started' = t
          /\ deadline' = Deadline(t)
    /\ polls' = 0
    /\ sleeps' = 0
    /\ slept' = 0
    /\ gapOk' = TRUE
    /\ wstate' = "Polling"
    /\ result' = "none"
    /\ pc' = "wait_loop"
    /\ UNCHANGED <<ret, inTry, raised, script>>
    /\ UNCHANGED mainVars /\ UNCHANGED kbVars

\* The loop condition of wait_for_processing.
LoopCond(t, d) == t < d

\* Mutant of PollOutcome: "failed" is taken for a finished file.
PollOutcomeFailedIsDone(r) ==
    IF r.code = 0 THEN "Exception"
    ELSE IF r.code = 404 THEN "AssumedReady"
    ELSE IF RaisesForStatus(r) THEN "HTTPError"
    ELSE LET status == Get(r.body, "status", "") IN
         IF status = "completed" \/ status = "failed" THEN "Completed"
         ELSE "Sleep"

\* Mutant of PollOutcome: raise_for_status comes before the 404 test.
PollOutcome404Raises(r) ==
    IF r.code = 0 THEN "Exception"
    ELSE IF RaisesForStatus(r) THEN "HTTPError"
    ELSE IF r.code = 404 THEN "AssumedReady"
    ELSE LET status == Get(r.body, "status", "") IN
         IF status = "completed" THEN "Completed"
         ELSE IF status = "failed" THEN "Failed"
         ELSE "Sleep"

\* What one answer of the status endpoint makes the waiter do.
PollOutcome(r) ==
    IF r.code = 0 THEN "Exception"
    ELSE IF r.code = 404 THEN "AssumedReady"
    ELSE IF RaisesForStatus(r) THEN "HTTPError"
    ELSE LET status == Get(r.body, "status", "") IN
         IF status = "completed" THEN "Completed"
         ELSE IF status = "failed" THEN "Failed"
         ELSE "Sleep"

\* while time.time() < deadline: ... falls out of the loop, return False
WaitTimedOut ==
    /\ pc = "wait_loop"
    /\ ~LoopCond(now, deadline)
    /\ wstate' = "TimedOut"
    /\ result' = "false"
    /\ pc' = ret
    /\ UNCHANGED <<ret, inTry, raised, script, now, started, deadline, polls, sleeps,
                   slept, gapOk>>
    /\ UNCHANGED mainVars /\ UNCHANGED kbVars

\* One status request and the branch on its answer.
WaitPoll ==
    /\ pc = "wait_loop"
    /\ LoopCond(now, deadline)
    /\ polls' = polls + 1
    /\ slept' = 0
    /\ gapOk' = (gapOk /\ (polls = 0 \/ slept >= POLL_INTERVAL))
    /\ \E d \in script.lat : now' = now + d
    /\ LET o == PollOutcome(Answer(script, polls + 1)) IN
          CASE o = "AssumedReady" ->
                  /\ wstate' = "AssumedReady" /\ result' = "true"
                  /\ pc' = ret /\ raised' = raised
            [] o = "Completed" ->
                  /\ wstate' = "Completed" /\ result' = "true"
                  /\ pc' = ret /\ raised' = raised
            [] o = "Failed" ->
                  /\ wstate' = "Failed" /\ result' = "false"
                  /\ pc' = ret /\ raised' = raised
            [] o = "Sleep" ->
                  /\ wstate' = "Polling" /\ result' = result
                  /\ pc' = "wait_sleep" /\ raised' = raised
            [] OTHER ->
                  /\ wstate' = "Error" /\ result' = result
                  /\ pc' = Handler(inTry) /\ raised' = o
    /\ UNCHANGED <<ret, inTry, script, started, deadline, sleeps>>
    /\ UNCHANGED mainVars /\ UNCHANGED kbVars

\* time.sleep(POLL_INTERVAL)
WaitSleep ==
    /\ pc = "wait_sleep"
    /\ now' = now + POLL_INTERVAL
    /\ slept' = slept + POLL_INTERVAL
    /\ sleeps' = sleeps + 1
    /\ pc' = "wait_loop"
    /\ UNCHANGED <<ret, inTry, raised, script, started, deadline, polls, gapOk,
                   wstate, result>>
    /\ UNCHANGED mainVars /\ UNCHANGED kbVars

\* -------------------------------------------------- the backend's listing
\* JSON value of the answer to GET /api/v1/knowledge/: the sequence itself,
\* or an object whose `items` field holds it.
ListBody(shape, cols) ==
    IF shape = "raw" THEN [type |-> "list", elems |-> cols, keys |-> <<>>]
    ELSE [type |-> "dict", elems |-> cols, keys |-> <<"items">>]

\* Index of the first element of cols named n, 0 when there is none.
FirstMatch(cols, n) ==
    LET hits == {k \in 1..Len(cols) : cols[k].name = n} IN
    IF hits = {} THEN 0 ELSE CHOOSE k \in hits : \A m \in hits : k <= m

\* for kb in r.json(): if kb.get("name") == name: return kb["id"]
\* Iterating an object yields its keys, and a key (a string) has no get.
ScanListing(j, n) ==
    IF j.type = "dict"
    THEN IF Len(j.keys) = 0 THEN [out |-> "missing", id |-> 0]
         ELSE [out |-> "Exception", id |-> 0]
    ELSE LET k == FirstMatch(j.elems, n) IN
         IF k = 0 THEN [out |-> "missing", id |-> 0]
         ELSE [out |-> "found", id |-> j.elems[k].id]

\* Codes the backend answers a request with (0: no answer).
Codes == {200, 500, 0}

\* raise_for_status, and the transport's own exception, for one answer.
CallOutcome(code) ==
    IF code = 0 THEN "Exception"
    ELSE IF RaisesForStatus(Resp(code, NoBody)) THEN "HTTPError"
    ELSE "ok"

IdsOf(cols) == {cols[k].id : k \in 1..Len(cols)}

\* The id the backend gives a collection it creates.
NewKbId(cols) ==
    IF cols = <<>> THEN 1
    ELSE 1 + CHOOSE m \in IdsOf(cols) : \A x \in IdsOf(cols) : x <= m

\* ------------------------------------------------ get_or_create_knowledge
\* r = session.get(.../api/v1/knowledge/); the scan of the listing.
KbList ==
    /\ pc = "kb_list"
    /\ listCalls' = listCalls + 1
    /\ \E code \in Codes :
          LET o == CallOutcome(code)
              s == ScanListing(ListBody(listShape, collections), name) IN
          /\ kbCodes' = Append(kbCodes, code)
          /\ IF o # "ok"
             THEN /\ raised' = o /\ pc' = Handler(inTry)
                  /\ UNCHANGED <<retval, returns>>
             ELSE CASE s.out = "found" ->
                         /\ retval' = s.id
                         /\ returns' = Append(returns, s.id)
                         /\ pc' = ret /\ raised' = raised
                    [] s.out = "missing" ->
                         /\ pc' = "kb_create"
                         /\ UNCHANGED <<raised, retval, returns>>
                    [] OTHER ->
                         /\ raised' = s.out /\ pc' = Handler(inTry)
                         /\ UNCHANGED <<retval, returns>>
    /\ UNCHANGED <<ret, inTry, script, collections, listing0, listShape,
                   createCalls, createdId>>
    /\ UNCHANGED auxVars
    /\ UNCHANGED mainVars /\ UNCHANGED waitVars

\* The value get_or_create_knowledge returns after a create answer.
CreatedValue(answerId) == answerId

\* r = session.post(.../api/v1/knowledge/create); kb_id = r.json()["id"]
KbCreate ==
    /\ pc = "kb_create"
    /\ createCalls' = createCalls + 1
    /\ \E code \in Codes :
          LET o == CallOutcome(code)
              id == NewKbId(collections) IN
          /\ kbCodes' = Append(kbCodes, code)
          /\ IF o # "ok"
             THEN /\ raised' = o /\ pc' = Handler(inTry)
                  /\ UNCHANGED <<retval, returns, collections, createdId>>
             ELSE /\ collections' = Append(collections, [id |-> id, name |-> name])
                  /\ createdId' = id
                  /\ retval' = CreatedValue(id)
                  /\ returns' = Append(returns, CreatedValue(id))
                  /\ pc' = ret /\ raised' = raised
    /\ UNCHANGED <<ret, inTry, script, listing0, listShape, listCalls>>
    /\ UNCHANGED auxVars
    /\ UNCHANGED mainVars /\ UNCHANGED waitVars

\* ------------------------------------------------------------------- main
\* sys.exit(message) and an uncaught exception both end with status 1.
ExitFailure == 1

\* Mutant of ResolveInputs: the credential is not checked.
ResolveInputsNoKeyCheck ==
    /\ pc = "main"
    /\ IF ~folder_ok
       THEN /\ exitCode' = ExitFailure /\ pc' = "done"
       ELSE /\ exitCode' = exitCode /\ pc' = "collect"
    /\ UNCHANGED <<ret, inTry, raised, script, folder_ok, api_key, dry_run,
                   nfiles, files, name, kb_id, i, succeeded, failed, file_id,
                   ok, hist, stored, uploadCalls, attachCalls>>
    /\ UNCHANGED kbVars /\ UNCHANGED waitVars

\* Lines 128-140: folder and credential checks.
ResolveInputs ==
    /\ pc = "main"
    /\ IF ~folder_ok \/ (~api_key /\ ~dry_run)
       THEN /\ exitCode' = ExitFailure /\ pc' = "done"
       ELSE /\ exitCode' = exitCode /\ pc' = "collect"
    /\ UNCHANGED <<ret, inTry, raised, script, folder_ok, api_key, dry_run,
                   nfiles, files, name, kb_id, i, succeeded, failed, file_id,
                   ok, hist, stored, uploadCalls, attachCalls>>
    /\ UNCHANGED kbVars /\ UNCHANGED waitVars

\* Mutant of CollectFiles: the dry-run switch is not looked at.
CollectFilesNoDryReturn ==
    /\ pc = "collect"
    /\ files' = nfiles
    /\ IF nfiles = 0 THEN /\ exitCode' = ExitFailure /\ pc' = "done" /\ ret' = ret
       ELSE /\ exitCode' = exitCode /\ pc' = "kb_list" /\ ret' = "loop_init"
    /\ UNCHANGED <<inTry, raised, script, folder_ok, api_key, dry_run, nfiles,
                   name, kb_id, i, succeeded, failed, file_id, ok, hist, stored,
                   uploadCalls, attachCalls>>
    /\ UNCHANGED kbVars /\ UNCHANGED waitVars

\* Lines 143-152: the catalog, the empty-catalog exit and the dry-run return.
CollectFiles ==
    /\ pc = "collect"
    /\ files' = nfiles
    /\ IF nfiles = 0 THEN /\ exitCode' = ExitFailure /\ pc' = "done" /\ ret' = ret
       ELSE IF dry_run THEN /\ exitCode' = 0 /\ pc' = "done" /\ ret' = ret
       ELSE /\ exitCode' = exitCode /\ pc' = "kb_list" /\ ret' = "loop_init"
    /\ UNCHANGED <<inTry, raised, script, folder_ok, api_key, dry_run, nfiles,
                   name, kb_id, i, succeeded, failed, file_id, ok, hist, stored,
                   uploadCalls, attachCalls>>
    /\ UNCHANGED kbVars /\ UNCHANGED waitVars

\* Lines 159-162: kb_id = get_or_create_knowledge(...); succeeded, failed = 0, 0
LoopInit ==
    /\ pc = "loop_init"
    /\ kb_id' = retval
    /\ succeeded' = 0 /\ failed' = 0
    /\ i' = 1
    /\ pc' = "loop"
    /\ UNCHANGED <<ret, inTry, raised, script, exitCode, folder_ok, api_key,
                   dry_run, nfiles, files, name, file_id, ok, hist, stored,
                   uploadCalls, attachCalls>>
    /\ UNCHANGED kbVars /\ UNCHANGED waitVars

\* An exception outside the try block ends the process.
Crash ==
    /\ pc = "crash"
    /\ exitCode' = ExitFailure
    /\ raised' = "none"
    /\ pc' = "done"
    /\ UNCHANGED <<ret, inTry, script, folder_ok, api_key, dry_run, nfiles,
                   files, name, kb_id, i, succeeded, failed, file_id, ok, hist,
                   stored, uploadCalls, attachCalls>>
    /\ UNCHANGED kbVars /\ UNCHANGED waitVars

\* What is recorded about entry i when it is finished.
Entry(up, wait, att, counted) ==
    [file |-> IF up = "ok" THEN file_id ELSE 0,
     up |-> up, wait |-> wait, att |-> att, counted |-> counted]

\* The state of the waiter's frame once main has its result.
WaiterGone ==
    /\ now' = 0 /\ started' = 0 /\ deadline' = 0
    /\ polls' = 0 /\ sleeps' = 0 /\ slept' = 0 /\ gapOk' = TRUE
    /\ wstate' = "Idle" /\ result' = "none"

\* Mutant of Upload: an exception of the upload is swallowed and the entry
\* goes on to its wait with the file id main already held.
UploadIgnoresFailure ==
    /\ pc = "loop"
    /\ i <= files
    /\ uploadCalls' = Append(uploadCalls, i)
    /\ inTry' = TRUE
    /\ \E code \in Codes :
          LET o == CallOutcome(code) IN
          IF o # "ok"
          THEN /\ \E s \in BatchScripts : script' = s
               /\ pc' = "wait_enter" /\ ret' = "attach"
               /\ UNCHANGED <<raised, file_id, stored>>
          ELSE /\ stored' = stored + 1
               /\ file_id' = stored + 1
               /\ \E s \in BatchScripts : script' = s
               /\ pc' = "wait_enter" /\ ret' = "attach"
               /\ raised' = raised
    /\ UNCHANGED <<exitCode, folder_ok, api_key, dry_run, nfiles, files, name,
                   kb_id, i, succeeded, failed, ok, hist, attachCalls>>
    /\ UNCHANGED kbVars /\ UNCHANGED waitVars

\* Line 168: file_id = upload_file(...), inside try.
Upload ==
    /\ pc = "loop"
    /\ i <= files
    /\ uploadCalls' = Append(uploadCalls, i)
    /\ inTry' = TRUE
    /\ \E code \in Codes :
          LET o == CallOutcome(code) IN
          IF o # "ok"
          THEN /\ raised' = o /\ pc' = Handler(TRUE)
               /\ UNCHANGED <<ret, file_id, stored, script>>
          ELSE /\ stored' = stored + 1
               /\ file_id' = stored + 1
               /\ \E s \in BatchScripts : script' = s
               /\ pc' = "wait_enter" /\ ret' = "attach"
               /\ raised' = raised
    /\ UNCHANGED <<exitCode, folder_ok, api_key, dry_run, nfiles, files, name,
                   kb_id, i, succeeded, failed, ok, hist, attachCalls>>
    /\ UNCHANGED kbVars /\ UNCHANGED waitVars

\* The request add_to_knowledge issues.
AttachCall(kb, file) == [kb |-> kb, file |-> file]

\* Mutant of Attach: a false result of the wait is raised as an error and
\* the file is not attached.
AttachOnlyIfOk ==
    /\ pc = "attach"
    /\ ok' = result
    /\ attachCalls' = IF result = "false" THEN attachCalls
                      ELSE Append(attachCalls, AttachCall(kb_id, file_id))
    /\ \E code \in Codes :
          LET o == IF result = "false" THEN "Exception" ELSE CallOutcome(code) IN
          IF o # "ok"
          THEN /\ raised' = o /\ pc' = Handler(TRUE)
               /\ UNCHANGED <<succeeded, hist, i, inTry, wstate, result, polls,
                              now, started, deadline, sleeps, slept, gapOk>>
          ELSE /\ succeeded' = succeeded + 1
               /\ hist' = Append(hist, Entry("ok", result, "ok", "succeeded"))
               /\ i' = i + 1
               /\ inTry' = FALSE
               /\ pc' = "loop"
               /\ raised' = raised
               /\ WaiterGone
    /\ UNCHANGED <<ret, script, exitCode, folder_ok, api_key, dry_run, nfiles,
                   files, name, kb_id, failed, file_id, stored, uploadCalls>>
    /\ UNCHANGED kbVars

\* Lines 172-177: ok = wait_for_processing(...); add_to_knowledge(...);
\* succeeded += 1
Attach ==
    /\ pc = "attach"
    /\ ok' = result
    /\ attachCalls' = Append(attachCalls, AttachCall(kb_id, file_id))
    /\ \E code \in Codes :
          LET o == CallOutcome(code) IN
          IF o # "ok"
          THEN /\ raised' = o /\ pc' = Handler(TRUE)
               /\ UNCHANGED <<succeeded, hist, i, inTry, wstate, result, polls,
                              now, started, deadline, sleeps, slept, gapOk>>
          ELSE /\ succeeded' = succeeded + 1
               /\ hist' = Append(hist, Entry("ok", result, "ok", "succeeded"))
               /\ i' = i + 1
               /\ inTry' = FALSE
               /\ pc' = "loop"
               /\ raised' = raised
               /\ WaiterGone
    /\ UNCHANGED <<ret, script, exitCode, folder_ok, api_key, dry_run, nfiles,
                   files, name, kb_id, failed, file_id, stored, uploadCalls>>
    /\ UNCHANGED kbVars

\* How far entry i got when the exception was raised: the upload (no waiter
\* was entered), the wait (the waiter raised), or the attach call.
FailedEntry ==
    IF wstate = "Idle" THEN Entry("fail", "none", "none", "failed")
    ELSE IF wstate = "Error" THEN Entry("ok", "error", "none", "failed")
    ELSE Entry("ok", result, "fail", "failed")

\* Mutant of Caught: the except clause reports the error and counts nothing.
CaughtUncounted(s, f) == [succeeded |-> s, failed |-> f]

\* Mutant of Caught: succeeded += 1 stands after the try statement, so a
\* caught entry is counted in both counters.
CaughtAlsoSucceeded(s, f) == [succeeded |-> s + 1, failed |-> f + 1]

\* What an except clause of the loop does to the counters.
Caught(s, f) == [succeeded |-> s, failed |-> f + 1]

\* Lines 179-182: except requests.HTTPError
ExceptHTTPError ==
    /\ pc = "except"
    /\ raised = "HTTPError"
    /\ succeeded' = Caught(succeeded, failed).succeeded
    /\ failed' = Caught(succeeded, failed).failed
    /\ hist' = Append(hist, FailedEntry)
    /\ i' = i + 1
    /\ inTry' = FALSE
    /\ raised' = "none"
    /\ pc' = "loop"
    /\ WaiterGone
    /\ UNCHANGED <<ret, script, exitCode, folder_ok, api_key, dry_run, nfiles,
                   files, name, kb_id, file_id, ok, stored, uploadCalls,
                   attachCalls>>
    /\ UNCHANGED kbVars

\* Lines 183-185: except Exception
ExceptException ==
    /\ pc = "except"
    /\ raised = "Exception"
    /\ succeeded' = Caught(succeeded, failed).succeeded
    /\ failed' = Caught(succeeded, failed).failed
    /\ hist' = Append(hist, FailedEntry)
    /\ i' = i + 1
    /\ inTry' = FALSE
    /\ raised' = "none"
    /\ pc' = "loop"
    /\ WaiterGone
    /\ UNCHANGED <<ret, script, exitCode, folder_ok, api_key, dry_run, nfiles,
                   files, name, kb_id, file_id, ok, stored, uploadCalls,
                   attachCalls>>
    /\ UNCHANGED kbVars

\* Mutant of ExitStatus: main returns after the summary whatever it counted.
ExitStatusAlwaysZero(f) == 0

\* Lines 188-194: the summary; if failed: sys.exit(1)
ExitStatus(f) == IF f # 0 THEN ExitFailure ELSE 0

Summary ==
    /\ pc = "loop"
    /\ i > files
    /\ exitCode' = ExitStatus(failed)
    /\ pc' = "done"
    /\ UNCHANGED <<ret, inTry, raised, script, folder_ok, api_key, dry_run,
                   nfiles, files, name, kb_id, i, succeeded, failed, file_id,
                   ok, hist, stored, uploadCalls, attachCalls>>
    /\ UNCHANGED kbVars /\ UNCHANGED waitVars

\* No second resolver, no query and no directory walk are under way.
NoQuery == [kind |-> "none", name |-> "", available |-> <<>>]

AuxIdle ==
    /\ peerPc = "idle" /\ peerRet = 0 /\ peerCodes = <<>> /\ order = "none"
    /\ qOut = NoQuery /\ completions = <<>>
    /\ fs = {} /\ walk = <<>> /\ exts = {} /\ catalog = <<>>

\* Listings the backend holds when a run starts.
BatchListings ==
    { <<>>,
      <<[id |-> 3, name |-> "misc"]>>,
      <<[id |-> 3, name |-> "misc"], [id |-> 5, name |-> "docs"]>> }

Init ==
    /\ pc = "main"
    /\ ret = "none"
    /\ inTry = FALSE
    /\ raised = "none"
    /\ retval = 0 /\ returns = <<>>
    /\ exitCode = -1
    /\ folder_ok \in BOOLEAN /\ api_key \in BOOLEAN /\ dry_run \in BOOLEAN
    /\ nfiles \in 0..MaxFiles
    /\ files = 0
    /\ name = "docs"
    /\ kb_id = 0
    /\ i = 0 /\ succeeded = 0 /\ failed = 0
    /\ file_id = 0 /\ ok = "none"
    /\ hist = <<>>
    /\ collections \in BatchListings
    /\ listing0 = collections
    /\ kbCodes = <<>>
    /\ listShape \in {"raw", "items"}
    /\ listCalls = 0 /\ createCalls = 0 /\ createdId = 0
    /\ stored = 0
    /\ uploadCalls = <<>>
    /\ attachCalls = <<>>
    /\ script = NoScript
    /\ now = 0 /\ started = 0 /\ deadline = 0
    /\ polls = 0 /\ sleeps = 0 /\ slept = 0 /\ gapOk = TRUE
    /\ wstate = "Idle" /\ result = "none"
    /\ AuxIdle

Next ==
    \/ ResolveInputs \/ CollectFiles \/ KbList \/ KbCreate \/ LoopInit \/ Crash
    \/ Upload \/ WaitEnter \/ WaitTimedOut \/ WaitPoll \/ WaitSleep \/ Attach
    \/ ExceptHTTPError \/ ExceptException \/ Summary

Spec == Init /\ [][Next]_vars

\* ------------------------------- get_or_create_knowledge called twice
\* Names and listings of the backend the resolver is called against.
Names == {"docs", "Docs", "misc"}

Listings ==
    { <<>> }
    \cup { <<[id |-> 3, name |-> a]>> : a \in Names }
    \cup { <<[id |-> 3, name |-> a], [id |-> 5, name |-> b]>> : a, b \in Names }

\* The caller calls get_or_create_knowledge again with the same name.
ResolveAgain ==
    /\ pc = "resolved_once"
    /\ pc' = "kb_list"
    /\ ret' = "resolved_twice"
    /\ UNCHANGED <<inTry, raised, script>>
    /\ UNCHANGED mainVars /\ UNCHANGED kbVars /\ UNCHANGED waitVars

InitResolve ==
    /\ pc = "kb_list"
    /\ ret = "resolved_once"
    /\ inTry = FALSE
    /\ raised = "none"
    /\ retval = 0 /\ returns = <<>>
    /\ exitCode = -1
    /\ folder_ok = TRUE /\ api_key = TRUE /\ dry_run = FALSE
    /\ nfiles = 0 /\ files = 0
    /\ name \in {"docs", "misc"}
    /\ kb_id = 0
    /\ i = 0 /\ succeeded = 0 /\ failed = 0
    /\ file_id = 0 /\ ok = "none"
    /\ hist = <<>>
    /\ collections \in Listings
    /\ listing0 = collections
    /\ kbCodes = <<>>
    /\ listShape \in {"raw", "items"}
    /\ listCalls = 0 /\ createCalls = 0 /\ createdId = 0
    /\ stored = 0
    /\ uploadCalls = <<>>
    /\ attachCalls = <<>>
    /\ script = NoScript
    /\ now = 0 /\ started = 0 /\ deadline = 0
    /\ polls = 0 /\ sleeps = 0 /\ slept = 0 /\ gapOk = TRUE
    /\ wstate = "Idle" /\ result = "none"
    /\ AuxIdle

NextResolve == KbList \/ KbCreate \/ ResolveAgain

SpecResolve == InitResolve /\ [][NextResolve]_vars

\* ------------------------- two resolvers of one name against one backend
\* How a list call of the second resolver stands in time to the first
\* resolver's call: before its list call ("peer_open" until the second
\* resolver is over, then "peer_first"), after its end ("main_first"), or
\* between its list call and its create call ("overlap").
ListedWhen ==
    IF listCalls = 0 THEN "peer_open"
    ELSE IF pc = "kb_create" THEN "overlap"
    ELSE "main_first"

\* The order once the second resolver is over, given what it was.
ClosedOrder(o) ==
    IF o = "peer_open" THEN (IF listCalls = 0 THEN "peer_first" ELSE "overlap")
    ELSE o

\* The second resolver's list call and scan (the same code, another process).
PeerList ==
    /\ peerPc = "list"
    /\ \E code \in Codes :
          LET o == CallOutcome(code)
              s == ScanListing(ListBody(listShape, collections), name) IN
          /\ peerCodes' = Append(peerCodes, code)
          /\ IF o # "ok"
             THEN /\ peerPc' = "raised" /\ peerRet' = peerRet
                  /\ order' = ClosedOrder(ListedWhen)
             ELSE CASE s.out = "found" ->
                         /\ peerRet' = s.id /\ peerPc' = "done"
                         /\ order' = ClosedOrder(ListedWhen)
                    [] s.out = "missing" ->
                         /\ peerPc' = "create" /\ peerRet' = peerRet
                         /\ order' = ListedWhen
                    [] OTHER ->
                         /\ peerPc' = "raised" /\ peerRet' = peerRet
                         /\ order' = ClosedOrder(ListedWhen)
    /\ UNCHANGED <<pc, ret, inTry, raised, script, qOut, completions, fs, walk,
                   exts, catalog>>
    /\ UNCHANGED <<collections, listing0, kbCodes, listShape, listCalls,
                   createCalls, createdId, retval, returns>>
    /\ UNCHANGED mainVars /\ UNCHANGED waitVars

\* The second resolver's create call.
PeerCreate ==
    /\ peerPc = "create"
    /\ \E code \in Codes :
          LET o == CallOutcome(code)
              id == NewKbId(collections) IN
          /\ peerCodes' = Append(peerCodes, code)
          /\ IF o # "ok"
             THEN /\ peerPc' = "raised"
                  /\ UNCHANGED <<peerRet, collections>>
             ELSE /\ collections' = Append(collections, [id |-> id, name |-> name])
                  /\ peerRet' = CreatedValue(id)
                  /\ peerPc' = "done"
    /\ order' = ClosedOrder(order)
    /\ UNCHANGED <<pc, ret, inTry, raised, script, qOut, completions, fs, walk,
                   exts, catalog>>
    /\ UNCHANGED <<listing0, kbCodes, listShape, listCalls, createCalls,
                   createdId, retval, returns>>
    /\ UNCHANGED mainVars /\ UNCHANGED waitVars

InitRace ==
    /\ pc = "kb_list"
    /\ ret = "resolved_once"
    /\ inTry = FALSE
    /\ raised = "none"
    /\ retval = 0 /\ returns = <<>>
    /\ exitCode = -1
    /\ folder_ok = TRUE /\ api_key = TRUE /\ dry_run = FALSE
    /\ nfiles = 0 /\ files = 0
    /\ name \in {"docs", "misc"}
    /\ kb_id = 0
    /\ i = 0 /\ succeeded = 0 /\ failed = 0
    /\ file_id = 0 /\ ok = "none"
    /\ hist = <<>>
    /\ collections \in Listings
    /\ listing0 = collections
    /\ kbCodes = <<>>
    /\ listShape \in {"raw", "items"}
    /\ listCalls = 0 /\ createCalls = 0 /\ createdId = 0
    /\ stored = 0
    /\ uploadCalls = <<>>
    /\ attachCalls = <<>>
    /\ script = NoScript
    /\ now = 0 /\ started = 0 /\ deadline = 0
    /\ polls = 0 /\ sleeps = 0 /\ slept = 0 /\ gapOk = TRUE
    /\ wstate = "Idle" /\ result = "none"
    /\ peerPc = "list" /\ peerRet = 0 /\ peerCodes = <<>> /\ order = "none"
    /\ qOut = NoQuery /\ completions = <<>>
    /\ fs = {} /\ walk = <<>> /\ exts = {} /\ catalog = <<>>

NextRace == KbList \/ KbCreate \/ PeerList \/ PeerCreate

SpecRace == InitRace /\ [][NextRace]_vars

\* ------------------------------------------- openwebui_mcp.py: rag_query
\* data.get("items", data) if isinstance(data, dict) else data
Unwrap(j) ==
    IF j.type = "dict" /\ \E k \in 1..Len(j.keys) : j.keys[k] = "items"
    THEN [type |-> "list", elems |-> j.elems, keys |-> <<>>]
    ELSE j

\* str.lower on the names of the model.
LowerName(n) == IF n = "Docs" THEN "docs" ELSE n

\* Mutant of McpLookup: the names are compared without regard to case.
McpLookupIgnoreCase(c, n) ==
    IF c.type = "dict"
    THEN IF Len(c.keys) = 0 THEN [out |-> "missing", id |-> 0]
         ELSE [out |-> "Exception", id |-> 0]
    ELSE LET hits == {k \in 1..Len(c.elems) :
                         LowerName(c.elems[k].name) = LowerName(n)} IN
         IF hits = {} THEN [out |-> "missing", id |-> 0]
         ELSE [out |-> "found",
               id |-> c.elems[CHOOSE k \in hits : \A m \in hits : k <= m].id]

\* next((kb["id"] for kb in collections if kb["name"] == collection_name),
\* None): the id of the first element so named. Over an object that was not
\* unwrapped the elements are its keys, and kb["name"] raises.
McpLookup(c, n) ==
    IF c.type = "dict"
    THEN IF Len(c.keys) = 0 THEN [out |-> "missing", id |-> 0]
         ELSE [out |-> "Exception", id |-> 0]
    ELSE LET hits == {k \in 1..Len(c.elems) : c.elems[k].name = n} IN
         IF hits = {} THEN [out |-> "missing", id |-> 0]
         ELSE [out |-> "found",
               id |-> c.elems[CHOOSE k \in hits : \A m \in hits : k <= m].id]

\* available = [kb["name"] for kb in collections]
Available(c) == [k \in 1..Len(c.elems) |-> c.elems[k].name]

\* f"Collection '{collection_name}' not found. Available: {available}"
NotFoundMessage(n, c) ==
    [kind |-> "not_found", name |-> n, available |-> Available(c)]

\* r.json()["choices"][0]["message"]["content"]
AnswerText(n) == [kind |-> "answer", name |-> n, available |-> <<>>]

\* "files": [{"type": "collection", "id": collection_id}]
CompletionCall(id) == [type |-> "collection", id |-> id]

\* Lines 76-86: the list call, the lookup and the not-found return.
RagList ==
    /\ pc = "rag_list"
    /\ listCalls' = listCalls + 1
    /\ \E code \in Codes :
          LET o == CallOutcome(code)
              c == Unwrap(ListBody(listShape, collections))
              s == McpLookup(c, name) IN
          /\ kbCodes' = Append(kbCodes, code)
          /\ IF o # "ok"
             THEN /\ raised' = o /\ pc' = Handler(inTry)
                  /\ UNCHANGED <<retval, qOut>>
             ELSE CASE s.out = "found" ->
                         /\ retval' = s.id
                         /\ pc' = "rag_complete"
                         /\ UNCHANGED <<raised, qOut>>
                    [] s.out = "missing" ->
                         /\ qOut' = NotFoundMessage(name, c)
                         /\ pc' = ret
                         /\ UNCHANGED <<raised, retval>>
                    [] OTHER ->
                         /\ raised' = s.out /\ pc' = Handler(inTry)
                         /\ UNCHANGED <<retval, qOut>>
    /\ UNCHANGED <<ret, inTry, script, collections, listing0, listShape,
                   createCalls, createdId, returns>>
    /\ UNCHANGED <<peerPc, peerRet, peerCodes, order, completions, fs, walk,
                   exts, catalog>>
    /\ UNCHANGED mainVars /\ UNCHANGED waitVars

\* Lines 89-99: the completion call scoped to the collection, and the return.
RagComplete ==
    /\ pc = "rag_complete"
    /\ completions' = Append(completions, CompletionCall(retval))
    /\ \E code \in Codes :
          LET o == CallOutcome(code) IN
          IF o # "ok"
          THEN /\ raised' = o /\ pc' = Handler(inTry) /\ qOut' = qOut
          ELSE /\ qOut' = AnswerText(name) /\ pc' = ret /\ raised' = raised
    /\ UNCHANGED <<ret, inTry, script>>
    /\ UNCHANGED <<collections, listing0, kbCodes, listShape, listCalls,
                   createCalls, createdId, retval, returns>>
    /\ UNCHANGED <<peerPc, peerRet, peerCodes, order, fs, walk, exts, catalog>>
    /\ UNCHANGED mainVars /\ UNCHANGED waitVars

\* After the query, ingest.py resolves the same name against the same backend.
ThenResolve ==
    /\ pc = "rag_done"
    /\ pc' = "kb_list"
    /\ ret' = "resolved_once"
    /\ UNCHANGED <<inTry, raised, script>>
    /\ UNCHANGED mainVars /\ UNCHANGED kbVars /\ UNCHANGED waitVars

InitQuery ==
    /\ pc = "rag_list"
    /\ ret = "rag_done"
    /\ inTry = FALSE
    /\ raised = "none"
    /\ retval = 0 /\ returns = <<>>
    /\ exitCode = -1
    /\ folder_ok = TRUE /\ api_key = TRUE /\ dry_run = FALSE
    /\ nfiles = 0 /\ files = 0
    /\ name \in {"docs", "misc"}
    /\ kb_id = 0
    /\ i = 0 /\ succeeded = 0 /\ failed = 0
    /\ file_id = 0 /\ ok = "none"
    /\ hist = <<>>
    /\ collections \in Listings
    /\ listing0 = collections
    /\ kbCodes = <<>>
    /\ listShape \in {"raw", "items"}
    /\ listCalls = 0 /\ createCalls = 0 /\ createdId = 0
    /\ stored = 0
    /\ uploadCalls = <<>>
    /\ attachCalls = <<>>
    /\ script = NoScript
    /\ now = 0 /\ started = 0 /\ deadline = 0
    /\ polls = 0 /\ sleeps = 0 /\ slept = 0 /\ gapOk = TRUE
    /\ wstate = "Idle" /\ result = "none"
    /\ AuxIdle

NextQuery == RagList \/ RagComplete \/ ThenResolve \/ KbList \/ KbCreate

SpecQuery == InitQuery /\ [][NextQuery]_vars

\* ------------------------------------------------------- collect_files
\* Names of files and directories, in the order of Python's string
\* comparison (by code point: upper case before lower case, a name before
\* every name it is a proper prefix of).
NameOrder ==
    <<"A.TXT", "a", "a.md", "a.txt", "b.LOG", "d.txt", "notes", "skip.exe",
      "x.md">>

Rank(n) == CHOOSE k \in 1..Len(NameOrder) : NameOrder[k] = n

\* Path.suffix of a name: from its last dot on, "" without one.
Suffix(n) ==
    CASE n = "A.TXT" -> ".TXT"
      [] n \in {"a.md", "x.md"} -> ".md"
      [] n \in {"a.txt", "d.txt"} -> ".txt"
      [] n = "b.LOG" -> ".LOG"
      [] n = "skip.exe" -> ".exe"
      [] OTHER -> ""

\* str.lower on a suffix.
Lower(x) ==
    CASE x = ".TXT" -> ".txt"
      [] x = ".LOG" -> ".log"
      [] OTHER -> x

\* What a tree under the folder may hold: paths relative to the folder, as
\* sequences of names, each a regular file or a directory.
Entries ==
    { [path |-> <<"a.txt">>, kind |-> "file"],
      [path |-> <<"A.TXT">>, kind |-> "file"],
      [path |-> <<"a.md">>, kind |-> "file"],
      [path |-> <<"a">>, kind |-> "dir"],
      [path |-> <<"a", "x.md">>, kind |-> "file"],
      [path |-> <<"skip.exe">>, kind |-> "file"],
      [path |-> <<"d.txt">>, kind |-> "dir"],
      [path |-> <<"notes">>, kind |-> "file"],
      [path |-> <<"b.LOG">>, kind |-> "file"] }

\* Largest number of paths in a tree.
MaxTree == 3

\* A path below a directory is in a tree only with that directory.
Trees ==
    { t \in SUBSET Entries :
         /\ Cardinality(t) <= MaxTree
         /\ \A e \in t : Len(e.path) = 2 =>
                [path |-> <<e.path[1]>>, kind |-> "dir"] \in t }

\* Extension sets: defaults, defaults with a user's "log", and with a
\* user's "LOG" (main adds the dot and does not change the case).
ExtSets ==
    { {},
      {".txt", ".md", ".pdf"},
      {".txt", ".md", ".pdf", ".log"},
      {".txt", ".md", ".pdf", ".LOG"} }

\* The orders in which rglob may yield the paths of a tree.
Walks(t) ==
    { w \in [1..Cardinality(t) -> t] :
         \A a, b \in 1..Cardinality(t) : w[a] = w[b] => a = b }

\* Path.__lt__: the paths are compared name by name, names as strings; a
\* path is below every path it is a proper prefix of.
RECURSIVE PartsLess(_, _)
PartsLess(p, q) ==
    IF p = <<>> THEN q # <<>>
    ELSE IF q = <<>> THEN FALSE
    ELSE IF Head(p) = Head(q) THEN PartsLess(Tail(p), Tail(q))
    ELSE Rank(Head(p)) < Rank(Head(q))

\* p.is_file() and p.suffix.lower() in extensions
Supported(e, extensions) ==
    /\ e.kind = "file"
    /\ Lower(Suffix(e.path[Len(e.path)])) \in extensions

\* The generator: the supported paths in the order of the walk.
RECURSIVE Selected(_, _)
Selected(w, extensions) ==
    IF w = <<>> THEN <<>>
    ELSE IF Supported(Head(w), extensions)
         THEN <<Head(w).path>> \o Selected(Tail(w), extensions)
         ELSE Selected(Tail(w), extensions)

\* sorted(): each path is put before the first path it is less than.
RECURSIVE Insert(_, _)
Insert(p, srt) ==
    IF srt = <<>> THEN <<p>>
    ELSE IF PartsLess(p, Head(srt)) THEN <<p>> \o srt
    ELSE <<Head(srt)>> \o Insert(p, Tail(srt))

RECURSIVE Sorted(_)
Sorted(ps) ==
    IF ps = <<>> THEN <<>>
    ELSE Insert(ps[Len(ps)], Sorted(SubSeq(ps, 1, Len(ps) - 1)))

\* Mutant of collect_files: the list is returned in the order of the walk.
collect_files_unsorted(w, extensions) == Selected(w, extensions)

\* Lines 110-114.
collect_files(w, extensions) == Sorted(Selected(w, extensions))

\* A call of collect_files; rglob yields the tree in some order.
CollectCall ==
    /\ pc \in {"collect_files", "collected"}
    /\ \E w \in Walks(fs) :
          /\ walk' = w
          /\ catalog' = collect_files(w, exts)
    /\ pc' = "collected"
    /\ UNCHANGED <<ret, inTry, raised, script, peerPc, peerRet, peerCodes,
                   order, qOut, completions, fs, exts>>
    /\ UNCHANGED <<collections, listing0, kbCodes, listShape, listCalls,
                   createCalls, createdId, retval, returns>>
    /\ UNCHANGED mainVars /\ UNCHANGED waitVars

InitCatalog ==
    /\ pc = "collect_files"
    /\ ret = "none"
    /\ inTry = FALSE
    /\ raised = "none"
    /\ retval = 0 /\ returns = <<>>
    /\ exitCode = -1
    /\ folder_ok = TRUE /\ api_key = TRUE /\ dry_run = FALSE
    /\ nfiles = 0 /\ files = 0
    /\ name = "docs"
    /\ kb_id = 0
    /\ i = 0 /\ succeeded = 0 /\ failed = 0
    /\ file_id = 0 /\ ok = "none"
    /\ hist = <<>>
    /\ collections = <<>> /\ listing0 = <<>> /\ kbCodes = <<>>
    /\ listShape = "raw"
    /\ listCalls = 0 /\ createCalls = 0 /\ createdId = 0
    /\ stored = 0
    /\ uploadCalls = <<>>
    /\ attachCalls = <<>>
    /\ script = NoScript
    /\ now = 0 /\ started = 0 /\ deadline = 0
    /\ polls = 0 /\ sleeps = 0 /\ slept = 0 /\ gapOk = TRUE
    /\ wstate = "Idle" /\ result = "none"
    /\ peerPc = "idle" /\ peerRet = 0 /\ peerCodes = <<>> /\ order = "none"
    /\ qOut = NoQuery /\ completions = <<>>
    /\ fs \in Trees
    /\ walk = <<>>
    /\ exts \in ExtSets
    /\ catalog = <<>>

NextCatalog == CollectCall

SpecCatalog == InitCatalog /\ [][NextCatalog]_vars

\* ------------------------------------------------ the waiter on its own
InitWaiter ==
    /\ pc = "wait_enter"
    /\ ret = "returned"
    /\ inTry = FALSE
    /\ raised = "none"
    /\ retval = 0 /\ returns = <<>>
    /\ exitCode = -1
    /\ folder_ok = TRUE /\ api_key = TRUE /\ dry_run = FALSE
    /\ nfiles = 0 /\ files = 0
    /\ name = "docs"
    /\ kb_id = 0
    /\ i = 0 /\ succeeded = 0 /\ failed = 0
    /\ file_id = 1 /\ ok = "none"
    /\ hist = <<>>
    /\ collections = <<>> /\ listing0 = <<>> /\ kbCodes = <<>>
    /\ listShape = "raw"
    /\ listCalls = 0 /\ createCalls = 0 /\ createdId = 0
    /\ stored = 1
    /\ uploadCalls = <<>>
    /\ attachCalls = <<>>
    /\ script \in Scripts
    /\ now = 0 /\ started = 0 /\ deadline = 0
    /\ polls = 0 /\ sleeps = 0 /\ slept = 0 /\ gapOk = TRUE
    /\ wstate = "Idle" /\ result = "none"
    /\ AuxIdle

NextWaiter == WaitEnter \/ WaitTimedOut \/ WaitPoll \/ WaitSleep

SpecWaiter == InitWaiter /\ [][NextWaiter]_vars

\* The waiter is one thread that runs whenever it can take a step.
FairSpecWaiter == SpecWaiter /\ WF_vars(NextWaiter)

\* ----------------------------------------------------- waiter properties
Returned == pc = "returned"

\* The answer to the last status request issued.
LastAnswer == Answer(script, polls)
LastStatus ==
    IF "status" \in DOMAIN LastAnswer.body THEN LastAnswer.body.status ELSE ""

\* C3: the waiter is in Polling until it ends; when it returns it is in
\* exactly one of Completed, AssumedReady, Failed, TimedOut; the result is
\* true exactly for Completed (last answer 2xx with status "completed") and
\* AssumedReady (last answer 404), false exactly for Failed (last answer 2xx
\* with status "failed") and TimedOut (the deadline is reached and the last
\* answer was not terminal).
C3_ResultContract ==
    /\ pc \in {"wait_loop", "wait_sleep"} => wstate = "Polling" /\ result = "none"
    /\ Returned =>
          /\ wstate \in {"Completed", "AssumedReady", "Failed", "TimedOut"}
          /\ result \in {"true", "false"}
          /\ result = "true" <=> wstate \in {"Completed", "AssumedReady"}
          /\ result = "false" <=> wstate \in {"Failed", "TimedOut"}
          /\ wstate = "Completed" <=>
                (LastAnswer.code = 200 /\ LastStatus = "completed")
          /\ wstate = "AssumedReady" <=> LastAnswer.code = 404
          /\ wstate = "Failed" <=>
                (LastAnswer.code = 200 /\ LastStatus = "failed")
          /\ wstate = "TimedOut" <=>
                /\ now >= deadline
                /\ LastAnswer.code = 200
                /\ LastStatus \notin {"completed", "failed"}

C3_Witness ==
    Returned /\ wstate = "Failed" /\ result = "false" /\ polls = 2

\* C4: against a backend that answers a non-terminal status on polls 1..k-1
\* and "completed" on poll k, the waiter never polls more than k times, every
\* poll but the first comes after a sleep of POLL_INTERVAL, and when it
\* returns either poll k was issued (exactly k polls, k-1 sleeps, success) or
\* poll k could not start before the deadline (time out with fewer polls).
\* When k-1 rounds of the longest request and a sleep fit before the
\* deadline, the first case is the only one.
C4_CompletedOnPollK ==
    script.final = "completed" =>
       /\ polls <= script.at
       /\ gapOk
       /\ now - started >= sleeps * POLL_INTERVAL
       /\ Returned =>
             \/ /\ wstate = "Completed" /\ result = "true"
                /\ polls = script.at /\ sleeps = script.at - 1
             \/ /\ wstate = "TimedOut" /\ result = "false"
                /\ polls < script.at /\ now >= deadline
       /\ (Returned /\ (script.at - 1) * (POLL_INTERVAL + MaxNetDelay) < POLL_TIMEOUT)
             => wstate = "Completed"

C4_Witness ==
    /\ Returned /\ script.final = "completed" /\ script.at = 3
    /\ polls = 3 /\ sleeps = 2 /\ result = "true"

\* C5: once the status endpoint has answered 404 the waiter has returned
\* success, with no sleep after that answer and no further poll; when the
\* first answer is already 404 it returns after exactly one poll.
C5_NotFoundIsReady ==
    script.final = "404" =>
       /\ polls <= script.at
       /\ polls = script.at =>
             /\ Returned /\ wstate = "AssumedReady" /\ result = "true"
             /\ sleeps = polls - 1
       /\ (script.at = 1 /\ pc # "wait_enter" /\ pc # "wait_loop") =>
             Returned /\ polls = 1 /\ sleeps = 0

C5_Witness ==
    /\ Returned /\ script.final = "404" /\ script.at = 1
    /\ polls = 1 /\ sleeps = 0 /\ result = "true"

\* C6: against a backend that never completes the waiter terminates: it
\* returns, the result is false, at least POLL_TIMEOUT has elapsed since
\* entry when it returns, every poll is issued while now < deadline, and no
\* poll is issued after it has returned.
C6_NeverCompletes ==
    /\ [](script.final = "never" =>
            /\ polls <= LastPoll
            /\ Returned =>
                  /\ result = "false" /\ wstate = "TimedOut"
                  /\ now - started >= POLL_TIMEOUT)
    /\ [][(script.final = "never" /\ polls' # polls) =>
            (now < deadline /\ ~Returned)]_vars
    /\ (script.final = "never") ~> Returned

C6_Witness ==
    /\ Returned /\ script.final = "never" /\ result = "false"
    /\ polls > MaxPollK /\ now - started >= POLL_TIMEOUT

\* ------------------------------------------------------ batch properties
\* The summary has been produced after a loop over the whole catalog.
Finished == pc = "done" /\ i = files + 1 /\ files >= 1

\* Number of attach calls issued for file f.
AttachCount(f) ==
    Cardinality({k \in 1..Len(attachCalls) : attachCalls[k].file = f})

Counted(c) == {j \in 1..Len(hist) : hist[j].counted = c}

\* Entries whose upload failed; the backend stored a file for every other.
UploadFailures == {j \in 1..Len(hist) : hist[j].up = "fail"}

OnlyUploadsFail ==
    \A j \in 1..Len(hist) :
        hist[j].up = "fail"
        \/ (hist[j].wait \in {"true", "false"} /\ hist[j].att = "ok")

\* C1: in a run that reached the summary, where the only failures are K
\* failed uploads, failed = K, succeeded = N - K, and every entry whose
\* upload did not fail has exactly one attach call for its file id, the id
\* the backend gave its upload (and no other attach call was issued).
C1_UploadFailuresCounted ==
    (Finished /\ OnlyUploadsFail) =>
       LET K == Cardinality(UploadFailures) IN
       /\ Len(hist) = files
       /\ K = files - stored
       /\ failed = K
       /\ succeeded = files - K
       /\ Len(attachCalls) = files - K
       /\ \A j \in (1..files) \ UploadFailures :
             /\ hist[j].file = Cardinality((1..j) \ UploadFailures)
             /\ AttachCount(hist[j].file) = 1

C1_Witness ==
    /\ Finished /\ OnlyUploadsFail /\ files = 3
    /\ Cardinality(UploadFailures) = 1
    /\ failed = 1 /\ succeeded = 2 /\ Len(attachCalls) = 2

\* C2: once the collection is resolved the run never leaves the loop by an
\* exception: an exception of the upload, wait or attach step lands in an
\* except clause, which moves on to the next entry; the upload calls issued
\* so far are exactly entries 1, 2, ... in catalog order, one call each, and
\* when the run is over every entry has had its upload call.
C2_NoAbortOneUploadEach ==
    /\ [](i >= 1 =>
            /\ pc # "crash"
            /\ \A k \in 1..Len(uploadCalls) : uploadCalls[k] = k
            /\ Len(uploadCalls) \in {i - 1, i}
            /\ Len(uploadCalls) <= files
            /\ pc = "except" => raised \in {"HTTPError", "Exception"}
            /\ pc = "done" => (Len(uploadCalls) = files /\ Len(hist) = files))
    /\ [][(i >= 1 /\ pc = "except") =>
            (pc' = "loop" /\ i' = i + 1 /\ uploadCalls' = uploadCalls)]_vars

C2_Witness ==
    /\ Finished /\ files = 3 /\ uploadCalls = <<1, 2, 3>>
    /\ hist[1].up = "fail" /\ hist[2].wait = "error" /\ hist[3].att = "fail"

\* C7: for every finished entry whose wait returned false (status "failed"
\* or time out) exactly one attach call was issued for its file, and when
\* that call succeeded the entry is counted in succeeded, not in failed;
\* the counters are the numbers of entries so counted.
C7_FalseWaitStillAttaches ==
    /\ succeeded = Cardinality(Counted("succeeded"))
    /\ failed = Cardinality(Counted("failed"))
    /\ (pc = "attach" /\ result = "false") => wstate \in {"Failed", "TimedOut"}
    /\ \A j \in 1..Len(hist) :
          hist[j].wait = "false" =>
             /\ hist[j].file # 0
             /\ AttachCount(hist[j].file) = 1
             /\ hist[j].att # "none"
             /\ hist[j].att = "ok" => hist[j].counted = "succeeded"

C7_Witness ==
    /\ pc = "loop" /\ Len(hist) = 1 /\ script.final = "never"
    /\ hist[1].wait = "false" /\ hist[1].att = "ok"
    /\ hist[1].counted = "succeeded" /\ succeeded = 1 /\ failed = 0
    /\ AttachCount(hist[1].file) = 1

AllOk(codes) == \A k \in 1..Len(codes) : codes[k] = 200

\* C9: with a listing that holds a collection of the given name, and every
\* request answered 2xx, no call of get_or_create_knowledge ends by raising,
\* no create call is issued, the backend's collections are unchanged, and
\* after the second call both calls have returned the same id.
C9_ResolveTwiceSameId ==
    (FirstMatch(listing0, name) # 0 /\ AllOk(kbCodes)) =>
       /\ createCalls = 0
       /\ collections = listing0
       /\ pc # "crash"
       /\ pc = "resolved_twice" =>
             (Len(returns) = 2 /\ returns[1] = returns[2] /\ listCalls = 2)

\* What the resolver does when the listing is answered as a raw sequence:
\* the statement of C9, and the id is that of the first element so named.
ResolveTwiceOnRawListing ==
    (listShape = "raw" /\ FirstMatch(listing0, name) # 0 /\ AllOk(kbCodes)) =>
       /\ createCalls = 0
       /\ collections = listing0
       /\ pc # "crash"
       /\ pc = "resolved_twice" =>
             /\ Len(returns) = 2 /\ returns[1] = returns[2] /\ listCalls = 2
             /\ returns[1] = listing0[FirstMatch(listing0, name)].id

\* C10: in a run whose collection name is not in the listing, with every
\* resolution request answered 2xx, once resolution is over exactly one list
\* call and one create call have been issued (the list call first), the
\* resolved id is the id of the create answer, no list or create call
\* follows, and every attach call targets that id.
C10_CreateOnceAttachThere ==
    (FirstMatch(listing0, name) = 0 /\ AllOk(kbCodes)
       /\ listCalls >= 1 /\ pc \notin {"kb_list", "kb_create"}) =>
       /\ pc # "crash"
       /\ listCalls = 1 /\ createCalls = 1
       /\ createdId # 0 /\ retval = createdId
       /\ i >= 1 => kb_id = createdId
       /\ \A k \in 1..Len(attachCalls) : attachCalls[k].kb = createdId

\* What the run does when the listing is answered as a raw sequence: the
\* statement of C10.
CreateOnceOnRawListing ==
    (listShape = "raw" /\ FirstMatch(listing0, name) = 0 /\ AllOk(kbCodes)
       /\ listCalls >= 1 /\ pc \notin {"kb_list", "kb_create"}) =>
       /\ pc # "crash"
       /\ listCalls = 1 /\ createCalls = 1
       /\ createdId # 0 /\ retval = createdId
       /\ createdId \notin IdsOf(listing0)
       /\ i >= 1 => kb_id = createdId
       /\ \A k \in 1..Len(attachCalls) : attachCalls[k].kb = createdId

\* ------------------------------------------------- exit status, aborts
\* No request has been sent to the backend.
NoNetworkCall ==
    /\ listCalls = 0 /\ createCalls = 0 /\ kbCodes = <<>>
    /\ uploadCalls = <<>> /\ stored = 0
    /\ polls = 0
    /\ attachCalls = <<>>

\* C12, as stated: a dry run sends no request and, when it is over, its
\* exit status is 0, whatever the folder, the catalog and the credential.
C12_DryRunAlwaysExitsZero ==
    dry_run => /\ NoNetworkCall
               /\ pc = "done" => exitCode = 0

\* C12, amended: a dry run sends no request, whatever the credential; when
\* it is over its exit status is 0 exactly when the root is a directory and
\* the catalog is not empty, and the failure status otherwise.
C12_DryRunNoCallsExitByInput ==
    dry_run =>
       /\ NoNetworkCall
       /\ pc \in {"main", "collect", "done"}
       /\ pc = "done" =>
             /\ exitCode \in {0, ExitFailure}
             /\ exitCode = 0 <=> (folder_ok /\ nfiles >= 1)
             /\ exitCode = 0 => files = nfiles

C12_Witness ==
    /\ dry_run /\ ~api_key /\ folder_ok /\ nfiles = 2
    /\ pc = "done" /\ exitCode = 0 /\ files = 2 /\ NoNetworkCall

\* C13: in a run without the dry-run switch that is over, the exit status is
\* 0 only if the summary was reached with failed = 0; with failed > 0 the
\* status is not 0; and a run that reached the summary with failed = 0 has
\* status 0.
C13_ExitZeroIffNoFailure ==
    (~dry_run /\ pc = "done") =>
       /\ exitCode = 0 => (Finished /\ failed = 0 /\ succeeded = files)
       /\ failed > 0 => exitCode # 0
       /\ (Finished /\ failed = 0) => exitCode = 0
       /\ failed = Cardinality(Counted("failed"))

C13_Witness ==
    /\ ~dry_run /\ Finished /\ files = 2
    /\ failed = 1 /\ succeeded = 1 /\ exitCode = ExitFailure

\* C14: when the root is not a directory, or the credential is missing and
\* the run is not a dry run, the run goes from its start straight to its
\* end, the exit status is not 0, and no request was ever sent.
C14_ValidationAbortsBeforeNetwork ==
    (~folder_ok \/ (~api_key /\ ~dry_run)) =>
       /\ pc \in {"main", "done"}
       /\ NoNetworkCall
       /\ files = 0 /\ hist = <<>>
       /\ pc = "done" => (exitCode # 0 /\ exitCode = ExitFailure)

C14_Witness ==
    /\ folder_ok /\ ~api_key /\ ~dry_run /\ nfiles = 2
    /\ pc = "done" /\ exitCode = ExitFailure /\ NoNetworkCall

FreshFile ==
    /\ file_id >= 1 /\ file_id = stored
    /\ Len(uploadCalls) = i /\ uploadCalls[i] = i
    /\ Len(hist) = i - 1
    /\ \A j \in 1..Len(hist) : hist[j].file # file_id

\* Entry i is past its upload and not finished.
PastUpload ==
    \/ pc \in {"wait_enter", "wait_loop", "wait_sleep", "attach"}
    \/ pc = "except" /\ wstate # "Idle"

WaitHasReturned ==
    /\ result \in {"true", "false"}
    /\ wstate \in {"Completed", "AssumedReady", "Failed", "TimedOut"}

\* Attach calls issued for finished entries, and for entry i when its
\* attach call raised.
AttachesDue ==
    Cardinality({j \in 1..Len(hist) : hist[j].att # "none"})
    + (IF pc = "except" /\ WaitHasReturned THEN 1 ELSE 0)

\* C19: a status poll is sent only inside the wait of entry i, for the file
\* id the upload of entry i returned; an attach call is sent only when that
\* wait has returned true or false, for that file id, and no file id has two
\* attach calls; an entry whose upload raised is finished by the except
\* clause with no poll and no attach call; and the upload of an entry is
\* sent only when every entry before it is finished.
C19_FileIdFlowsLinearly ==
    /\ []((PastUpload \/ polls > 0 \/ wstate # "Idle") =>
             (PastUpload /\ FreshFile))
    /\ [][polls' # polls /\ polls' # 0 =>
             (pc = "wait_loop" /\ FreshFile /\ polls' = polls + 1
              /\ file_id' = file_id)]_vars
    /\ [][attachCalls' # attachCalls =>
             /\ pc = "attach" /\ WaitHasReturned /\ FreshFile
             /\ AttachCount(file_id) = 0
             /\ attachCalls' = Append(attachCalls, AttachCall(kb_id, file_id))]_vars
    /\ [](\A f \in 0..(MaxFiles + 1) :
             /\ AttachCount(f) <= 1
             /\ AttachCount(f) = 1 => f \in 1..stored)
    /\ [](Len(attachCalls) = AttachesDue)
    /\ [](\A j \in 1..Len(hist) :
             hist[j].up = "fail" =>
                (hist[j].file = 0 /\ hist[j].wait = "none"
                 /\ hist[j].att = "none"))
    /\ [][(pc = "except" /\ wstate = "Idle") =>
             /\ polls = 0 /\ polls' = 0 /\ attachCalls' = attachCalls
             /\ stored' = stored
             /\ hist' = Append(hist, [file |-> 0, up |-> "fail",
                                      wait |-> "none", att |-> "none",
                                      counted |-> "failed"])]_vars
    /\ [][uploadCalls' # uploadCalls =>
             /\ pc = "loop" /\ Len(hist) = i - 1 /\ Len(uploadCalls) = i - 1
             /\ polls = 0 /\ wstate = "Idle"
             /\ Len(attachCalls) = AttachesDue
             /\ uploadCalls' = Append(uploadCalls, i)]_vars

\* Entry 1 failed at its upload; entry 2 was uploaded, polled twice and is
\* about to be attached.
C19_Witness ==
    /\ pc = "attach" /\ i = 2 /\ hist[1].up = "fail" /\ file_id = 1
    /\ polls = 2 /\ result = "true" /\ attachCalls = <<>>

\* C20: at every moment of the loop succeeded + failed is the number of
\* finished entries, which is i - 1 between two entries; every finished
\* entry is counted in exactly one counter; succeeded is the number of
\* entries whose attach call was answered 2xx and failed the number of the
\* others; at the summary succeeded + failed = N.
C20_CountersPartitionEntries ==
    /\ succeeded + failed = Len(hist)
    /\ Counted("succeeded") \cup Counted("failed") = 1..Len(hist)
    /\ Counted("succeeded") \cap Counted("failed") = {}
    /\ succeeded = Cardinality(Counted("succeeded"))
    /\ failed = Cardinality(Counted("failed"))
    /\ Counted("succeeded") = {j \in 1..Len(hist) : hist[j].att = "ok"}
    /\ succeeded <= Len(attachCalls)
    /\ (i >= 1 /\ pc = "loop") => Len(hist) = i - 1
    /\ i >= 1 => Len(hist) \in {i - 1, i}
    /\ Finished => (succeeded + failed = files /\ Len(hist) = files)

C20_Witness ==
    /\ Finished /\ files = 3 /\ succeeded = 1 /\ failed = 2
    /\ hist[1].wait = "error" /\ hist[2].att = "ok" /\ hist[3].up = "fail"

\* --------------------------------------------------- concurrent resolvers
\* Number of collections of the backend with the name being resolved.
NameCount ==
    Cardinality({k \in 1..Len(collections) : collections[k].name = name})

\* Both resolutions are over, by a return or by an exception.
BothOver ==
    /\ pc \in {"resolved_once", "crash"}
    /\ peerPc \in {"done", "raised"}

\* C11, the part about resolutions that run one after the other: when the
\* name was absent, every request was answered 2xx and one resolution ended
\* before the other sent its list call, then once both are over the backend
\* holds exactly one collection with the name.
C11_SequentialGivesOne ==
    (FirstMatch(listing0, name) = 0 /\ AllOk(kbCodes) /\ AllOk(peerCodes)
       /\ BothOver /\ order \in {"peer_first", "main_first"}) =>
       NameCount = 1

\* What two resolvers do when the listing is answered as a raw sequence: the
\* statement of C11. Two collections with the name are left exactly when the
\* list call of one fell between the list and the create call of the other;
\* resolutions that run one after the other leave one, and return its id.
RaceOnRawListing ==
    (listShape = "raw" /\ FirstMatch(listing0, name) = 0
       /\ AllOk(kbCodes) /\ AllOk(peerCodes)) =>
       /\ NameCount <= 2
       /\ BothOver =>
             /\ pc # "crash" /\ peerPc # "raised"
             /\ order \in {"peer_first", "main_first", "overlap"}
             /\ NameCount = 2 <=> order = "overlap"
             /\ NameCount = 1 <=> order \in {"peer_first", "main_first"}
             /\ NameCount = 1 <=> retval = peerRet

\* The interleaving of C11: both resolvers listed before either created, and
\* the backend holds two collections named "docs".
DuplicateAfterRace ==
    /\ listShape = "raw" /\ listing0 = <<>> /\ name = "docs"
    /\ BothOver /\ order = "overlap"
    /\ NameCount = 2 /\ retval # peerRet
    /\ collections = <<[id |-> 1, name |-> "docs"], [id |-> 2, name |-> "docs"]>>

\* ------------------------------------------------------ query properties
\* rag_query is over, by a return or by an exception.
QueryOver == pc \notin {"rag_list", "rag_complete"}

NamesOf(cols) == [k \in 1..Len(cols) |-> cols[k].name]

\* C16: once rag_query is over after a list answer of 2xx: when the listing
\* has no collection of exactly the given name, it has returned a not-found
\* message that holds the names of all collections of the listing, in the
\* listing's order, it has not raised, and no completion call was sent; when
\* the listing has one, exactly one completion call was sent, for the id of
\* the first collection so named. No query sends two completion calls.
C16_NotFoundMessageElseOneCompletion ==
    /\ Len(completions) <= 1
    /\ FirstMatch(listing0, name) = 0 => completions = <<>>
    /\ (QueryOver /\ kbCodes # <<>> /\ kbCodes[1] = 200) =>
          IF FirstMatch(listing0, name) = 0
          THEN /\ qOut = [kind |-> "not_found", name |-> name,
                          available |-> NamesOf(listing0)]
               /\ completions = <<>>
               /\ listCalls = 1 => (pc \in {"rag_done", "kb_list"} /\ raised = "none")
          ELSE /\ completions =
                    <<[type |-> "collection",
                       id |-> listing0[FirstMatch(listing0, name)].id]>>
               /\ qOut.kind \in {"answer", "none"}
               /\ qOut.kind = "none" => raised # "none"

\* The backend lists "Docs" and "misc"; the query for "docs" has returned
\* the not-found message with both names and no completion call was sent.
C16_Witness ==
    /\ pc = "rag_done" /\ name = "docs" /\ listShape = "items"
    /\ listing0 = <<[id |-> 3, name |-> "Docs"], [id |-> 5, name |-> "misc"]>>
    /\ qOut = [kind |-> "not_found", name |-> "docs",
               available |-> <<"Docs", "misc">>]
    /\ completions = <<>>

\* Both lookups have just run, each on a list answer of 2xx; the query tool
\* does not change the backend, so both saw the same listing.
BothLookedUp ==
    /\ listCalls = 2 /\ kbCodes = <<200, 200>>
    /\ collections = listing0

\* C18: when rag_query and then get_or_create_knowledge have looked the
\* name up in the same listing, either both found no match (the query
\* returned not-found, the resolver goes on to create) or both selected the
\* same id (the id of the completion call is the id the resolver returned);
\* the resolver's lookup does not raise.
C18_LookupsAgree ==
    BothLookedUp =>
       /\ pc # "crash"
       /\ qOut.kind = "not_found" => (pc = "kb_create" /\ returns = <<>>)
       /\ qOut.kind = "answer" =>
             /\ pc = "resolved_once" /\ createCalls = 0
             /\ returns = <<completions[1].id>>

\* What the two lookups do when the listing is answered as a raw sequence:
\* the statement of C18.
LookupsAgreeOnRawListing ==
    (listShape = "raw" /\ BothLookedUp) =>
       /\ pc # "crash"
       /\ qOut.kind = "not_found" => (pc = "kb_create" /\ returns = <<>>)
       /\ qOut.kind = "answer" =>
             /\ pc = "resolved_once" /\ createCalls = 0
             /\ returns = <<completions[1].id>>

\* ---------------------------------------------------- catalog properties
\* The paths of the tree collect_files is to return.
Wanted ==
    { e.path : e \in { x \in fs : /\ x.kind = "file"
                                  /\ \E sfx \in exts :
                                        sfx = Lower(Suffix(x.path[Len(x.path)])) } }

\* C17: the list a call of collect_files returned holds exactly the paths
\* of the tree that are regular files with a lower-cased suffix in the
\* extension set, each once, every path below the one after it in the order
\* of paths; it is the list every order of the walk gives, and a further
\* call with another order of the walk returns it again.
C17_CatalogExactSortedStable ==
    /\ [](pc = "collected" =>
            /\ {catalog[k] : k \in 1..Len(catalog)} = Wanted
            /\ Len(catalog) = Cardinality(Wanted)
            /\ \A a, b \in 1..Len(catalog) :
                  a < b => (catalog[a] # catalog[b]
                            /\ PartsLess(catalog[a], catalog[b])
                            /\ ~PartsLess(catalog[b], catalog[a]))
            /\ \A w \in Walks(fs) : collect_files(w, exts) = catalog)
    /\ [][pc = "collected" => (catalog' = catalog /\ fs' = fs /\ exts' = exts)]_vars

\* The walk yielded a/x.md, then a.md, then the directory a; the catalog
\* has a/x.md before a.md.
C17_Witness ==
    /\ pc = "collected"
    /\ walk = <<[path |-> <<"a", "x.md">>, kind |-> "file"],
                [path |-> <<"a.md">>, kind |-> "file"],
                [path |-> <<"a">>, kind |-> "dir"]>>
    /\ exts = {".txt", ".md", ".pdf"}
    /\ catalog = << <<"a", "x.md">>, <<"a.md">> >>

====
